---- MODULE Spec2Model ----
(***************************************************************************)
(* lago-images: the dependency resolver (bin/depsolver.py) and the image   *)
(* build pipeline (lago_images/images.py, lago_images/cmd.py).             *)
(*                                                                         *)
(* Strings the code manipulates (paths) are sequences of tokens, so that   *)
(* concatenation, rsplit and join are computed as the code computes them.  *)
(***************************************************************************)
EXTENDS Integers, Sequences, FiniteSets, TLC

\* ------------------------------------------------------------------ bounds
\* longest node list handed to get_batches
MaxNodes == 3
\* longest node list of a call whose termination is checked
MaxFairNodes == 2
\* chunks of a downloaded file
MaxChunks == 2
\* longest spec list handed to get_build_batches
MaxSpecs == 2
\* longest spec list handed to generate_repo
MaxRunSpecs == 2
\* longest spec list handed to generate_repo of bin/build.py
MaxBuildSpecs == 3

\* ------------------------------------------------------------ value space
\* Python's None, where a string is expected
None == <<"None">>

\* node names (spec ids, the base names of the spec files)
Names == {<<"a">>, <<"b">>, <<"c">>}

\* a base that names a virt-builder image: 'libguestfs:<image>'
LgBase == <<"libguestfs", ":", "f23">>

\* the default of --repo-dir: os.path.join(os.curdir, 'image-repo')
DefaultRepoDir == <<".", "/", "image-repo">>

\* payload of a node that carries a spec (build.py hands the Spec object)
Payload == <<"spec">>

\* depsolver.Node: name, value (payload or None), depends (a set of names).
\* A node without payload is an anchor and is created without dependencies
\* (build.py:567).
NodeRecs ==
    [name : Names, value : {Payload}, depends : SUBSET Names]
    \cup [name : Names, value : {None}, depends : {{}}]

RECURSIVE SeqsUpTo(_, _)
SeqsUpTo(S, n) ==
    IF n = 0 THEN {<<>>}
    ELSE LET shorter == SeqsUpTo(S, n - 1)
         IN  shorter \cup {Append(s, x) : s \in {t \in shorter : Len(t) = n - 1}, x \in S}

\* the node lists of at most n nodes
NodeLists(n) == SeqsUpTo(NodeRecs, n)

\* the part of a parsed spec the resolver reads: props['id'] and props['base']
SpecRecs == [id : Names, base : Names \cup {LgBase}]

SpecLists == SeqsUpTo(SpecRecs, MaxSpecs)

\* str.startswith
StartsWith(s, prefix) ==
    /\ Len(s) >= Len(prefix)
    /\ SubSeq(s, 1, Len(prefix)) = prefix

\* depsolver.Node(name, value, *depends)
Node(name, value, depends) == [name |-> name, value |-> value, depends |-> depends]

\* mutant of get_build_batches: no anchor node is made for a 'libguestfs:'
\* base
RECURSIVE get_build_batches_NoAnchor(_)
get_build_batches_NoAnchor(sp) ==
    IF sp = <<>> THEN <<>>
    ELSE LET spec == sp[Len(sp)]
         IN  Append(get_build_batches_NoAnchor(SubSeq(sp, 1, Len(sp) - 1)),
                    Node(spec.id, spec.id, {spec.base}))

\* the node list get_build_batches hands to get_batches: a node per spec
\* that depends on the spec's base and, after it, an anchor node for a
\* 'libguestfs:' base
RECURSIVE get_build_batches(_)
get_build_batches(sp) ==
    IF sp = <<>> THEN <<>>
    ELSE LET spec == sp[Len(sp)]
             front == get_build_batches(SubSeq(sp, 1, Len(sp) - 1))
             withSpec == Append(front, Node(spec.id, spec.id, {spec.base}))
         IN  IF StartsWith(spec.base, <<"libguestfs", ":">>)
             THEN Append(withSpec, Node(spec.base, None, {}))
             ELSE withSpec

VARIABLES
    nodes,          \* get_batches argument: the list of Node objects
    name_to_deps,   \* get_batches local: pending name -> remaining deps
    batches,        \* get_batches local: the batches appended so far
    gb_pc,          \* position in get_batches: "loop", "returned", "raised"
    ret,            \* what get_batches returned: [returned, value]
    exc             \* what get_batches raised: [raised, edges], the edges of the message

VARIABLES
    repo_dir,          \* generate_repo argument: the directory of the repo
    specs,             \* generate_repo argument: the spec files, as parsed
    images,            \* the Image objects: spec, dst_path, base_image, strategy
    built,             \* Image.built, per image
    compressed,        \* Image.compressed, per image
    built_image_path,  \* Image.built_image_path, per image
    props,             \* Image.spec.props, the keys the build back-fills, per image
    fs,                \* the files on disk: path -> content
    last,              \* the last call made on an image and how it ended
    run_pc,            \* position in generate_repo
    cur,               \* generate_repo: index of the next image to build
    outcome,           \* generate_repo: how build() ended, per image
    repo_format        \* generate_repo argument: 'all', 'lago' or 'virt-builder'

resolverVars == <<nodes, name_to_deps, batches, gb_pc, ret, exc>>

imageVars == <<repo_dir, specs, images, built, compressed, built_image_path, props, fs, last>>

repoVars == <<run_pc, cur, outcome, repo_format>>

vars == <<nodes, name_to_deps, batches, gb_pc, ret, exc,
          repo_dir, specs, images, built, compressed, built_image_path, props, fs,
          last, run_pc, cur, outcome, repo_format>>

\* ------------------------------------------------------------- depsolver
\* index of the last node of the list that carries the name: dict() keeps
\* the last value given for a key
LastIndex(ns, n) ==
    CHOOSE i \in 1..Len(ns) :
        /\ ns[i].name = n
        /\ \A j \in (i + 1)..Len(ns) : ns[j].name # n

NodeNames(ns) == {ns[i].name : i \in 1..Len(ns)}

\* name_to_instance = dict((node.name, node) for node in nodes)
name_to_instance(ns) == [n \in NodeNames(ns) |-> ns[LastIndex(ns, n)]]

\* name_to_deps = dict((node.name, set(node.depends)) for node in nodes)
InitialDeps(ns) == [n \in NodeNames(ns) |-> ns[LastIndex(ns, n)].depends]

\* mutant of Ready: a name with one dependency left counts as ready
Ready_OneDepLeft(ntd) == {n \in DOMAIN ntd : Cardinality(ntd[n]) <= 1}

\* mutant of Ready: only one of the ready names is taken per iteration
Ready_OneAtATime(ntd) ==
    LET r == {n \in DOMAIN ntd : ntd[n] = {}}
    IN  IF r = {} THEN {} ELSE {CHOOSE n \in r : TRUE}

\* one pass over the names in the order of the node list that takes a
\* name as ready once its dependencies are among the names taken so far
RECURSIVE GreedyPass(_, _, _)
GreedyPass(k, ntd, taken) ==
    IF k > Len(nodes) THEN taken
    ELSE LET n == nodes[k].name
         IN  IF n \in DOMAIN ntd /\ ntd[n] \subseteq taken
             THEN GreedyPass(k + 1, ntd, taken \cup {n})
             ELSE GreedyPass(k + 1, ntd, taken)

\* mutant of Ready: a name made ready in the pass frees the names that
\* come after it in the same pass
Ready_InInputOrder(ntd) == GreedyPass(1, ntd, {})

\* mutant of Ready: the ready names that carry a value go first, the
\* others wait until none of those is ready
Ready_PayloadFirst(ntd) ==
    LET r == {n \in DOMAIN ntd : ntd[n] = {}}
        withValue == {n \in r : name_to_instance(nodes)[n].value # None}
    IN  IF withValue # {} THEN withValue ELSE r

\* ready = the pending names whose remaining dependency set is empty
Ready(ntd) == {n \in DOMAIN ntd : ntd[n] = {}}

\* mutant of RemoveReady: a name whose last dependencies are the ready ones
\* is deleted with them
RemoveReady_DropsFreed(ntd, ready) ==
    [n \in {m \in (DOMAIN ntd) \ ready : ntd[m] \ ready # {}} |-> ntd[n] \ ready]

\* mutant of RemoveReady: the ready names are taken out of the dependency
\* sets but stay pending
RemoveReady_KeepsNames(ntd, ready) == [n \in DOMAIN ntd |-> ntd[n] \ ready]

\* del name_to_deps[name] for the ready ones; deps.difference_update(ready)
RemoveReady(ntd, ready) == [n \in (DOMAIN ntd) \ ready |-> ntd[n] \ ready]

\* mutant of format_dependencies: one line per pending name only
format_dependencies_OneParent(ntd) ==
    {<<n, CHOOSE p \in ntd[n] : TRUE>> : n \in {m \in DOMAIN ntd : ntd[m] # {}}}

\* format_dependencies: one "name -> parent" line per pending edge
format_dependencies(ntd) == UNION {{<<n, p>> : p \in ntd[n]} : n \in DOMAIN ntd}

\* one iteration of "while name_to_deps" that finds ready names
GetBatchesStep ==
    /\ gb_pc = "loop"
    /\ DOMAIN name_to_deps # {}
    /\ Ready(name_to_deps) # {}
    /\ name_to_deps' = RemoveReady(name_to_deps, Ready(name_to_deps))
    /\ batches' = Append(batches, Ready(name_to_deps))
    /\ UNCHANGED <<nodes, gb_pc, ret, exc>>
    /\ UNCHANGED <<imageVars, repoVars>>

\* mutant of GetBatchesRaise: leave the loop and return the batches made
GetBatchesRaise_ReturnsPartial ==
    /\ gb_pc = "loop"
    /\ DOMAIN name_to_deps # {}
    /\ Ready(name_to_deps) = {}
    /\ gb_pc' = "returned"
    /\ ret' = [returned |-> TRUE, value |-> batches]
    /\ UNCHANGED <<nodes, name_to_deps, batches, exc>>
    /\ UNCHANGED <<imageVars, repoVars>>

\* the iteration that finds nothing ready: raise ValueError
GetBatchesRaise ==
    /\ gb_pc = "loop"
    /\ DOMAIN name_to_deps # {}
    /\ Ready(name_to_deps) = {}
    /\ gb_pc' = "raised"
    /\ exc' = [raised |-> TRUE, edges |-> format_dependencies(name_to_deps)]
    /\ UNCHANGED <<nodes, name_to_deps, batches, ret>>
    /\ UNCHANGED <<imageVars, repoVars>>

\* the loop condition fails: return batches
GetBatchesReturn ==
    /\ gb_pc = "loop"
    /\ DOMAIN name_to_deps = {}
    /\ gb_pc' = "returned"
    /\ ret' = [returned |-> TRUE, value |-> batches]
    /\ UNCHANGED <<nodes, name_to_deps, batches, exc>>
    /\ UNCHANGED <<imageVars, repoVars>>

\* get_batches is entered with the given node list
ResolverStarts(ns) ==
    /\ nodes = ns
    /\ name_to_deps = InitialDeps(ns)
    /\ batches = <<>>
    /\ gb_pc = "loop"
    /\ ret = [returned |-> FALSE, value |-> <<>>]
    /\ exc = [raised |-> FALSE, edges |-> {}]

\* no image exists and generate_repo (cmd.py) is not running
NoImages ==
    /\ repo_dir = DefaultRepoDir
    /\ specs = <<>>
    /\ images = <<>>
    /\ built = <<>>
    /\ compressed = <<>>
    /\ built_image_path = <<>>
    /\ props = <<>>
    /\ fs = <<>>
    /\ last = [op |-> "", img |-> 0, err |-> "", xz |-> FALSE, returned |-> None]
    /\ run_pc = "idle"
    /\ cur = 0
    /\ outcome = <<>>
    /\ repo_format = "all"

InitResolver ==
    /\ \E ns \in NodeLists(MaxNodes) \cup {get_build_batches(sp) : sp \in SpecLists} :
           ResolverStarts(ns)
    /\ NoImages

NextResolver == GetBatchesStep \/ GetBatchesRaise \/ GetBatchesReturn

SpecResolver == InitResolver /\ [][NextResolver]_vars

\* get_batches is one sequential call: while its loop can take a step, it
\* takes one
InitResolverFair ==
    /\ \E ns \in NodeLists(MaxFairNodes) \cup {get_build_batches(sp) : sp \in SpecLists} :
           ResolverStarts(ns)
    /\ NoImages

SpecResolverFair == InitResolverFair /\ [][NextResolver]_vars /\ WF_vars(NextResolver)

\* ------------------------------------------------- resolver: vocabulary
\* the dependency graph the call works on
Deps == InitialDeps(nodes)

\* names reachable from n along at least one dependency edge
RECURSIVE ReachFrom(_, _)
ReachFrom(front, seen) ==
    LET next == UNION {IF m \in DOMAIN Deps THEN Deps[m] ELSE {} : m \in front}
    IN  IF next \subseteq seen THEN seen ELSE ReachFrom(next \ seen, seen \cup next)

DependsOn(n) == ReachFrom({n}, {})

HasCycle == \E n \in DOMAIN Deps : n \in DependsOn(n)

UniqueNames == \A i, j \in 1..Len(nodes) : nodes[i].name = nodes[j].name => i = j

AllDepsPresent == \A n \in DOMAIN Deps : Deps[n] \subseteq DOMAIN Deps

HasUnknownDep == ~AllDepsPresent

AcyclicInput == UniqueNames /\ AllDepsPresent /\ ~HasCycle

Batched(bs) == UNION {bs[k] : k \in 1..Len(bs)}

\* the (1-based) index of the batch that holds n
BatchOf(bs, n) == CHOOSE k \in 1..Len(bs) : n \in bs[k]

Max(S) == CHOOSE x \in S : \A y \in S : y <= x

\* ---------------------------------------------------------------- C1
\* C1: for an acyclic node set (unique names, every dependency present)
\* get_batches does not raise, and in the batch sequence it returns every
\* node lies in a batch and each of its dependencies lies in a batch with a
\* strictly smaller index.
C1_DepsInEarlierBatch ==
    AcyclicInput =>
        /\ gb_pc # "raised"
        /\ ret.returned =>
              \A n \in DOMAIN Deps :
                  /\ n \in Batched(ret.value)
                  /\ \A d \in Deps[n] :
                        /\ d \in Batched(ret.value)
                        /\ BatchOf(ret.value, d) < BatchOf(ret.value, n)

\* a returned three-batch sequence for a node with two dependencies
C1_Witness ==
    /\ AcyclicInput
    /\ ret.returned
    /\ Len(ret.value) = 3
    /\ \E n \in DOMAIN Deps : Cardinality(Deps[n]) = 2

\* ---------------------------------------------------------------- C2
\* C2: batching is maximal: in the returned sequence a node without
\* dependencies is in the first batch and any other node is in the batch
\* right after the latest batch of its dependencies.
C2_Maximal ==
    ret.returned =>
        \A n \in DOMAIN Deps :
            /\ n \in Batched(ret.value)
            /\ Deps[n] \subseteq Batched(ret.value)
            /\ BatchOf(ret.value, n) =
                  IF Deps[n] = {} THEN 1
                  ELSE 1 + Max({BatchOf(ret.value, d) : d \in Deps[n]})

\* a node whose two dependencies lie in different batches
C2_Witness ==
    /\ ret.returned
    /\ \E n \in DOMAIN Deps : \E d, e \in Deps[n] :
          /\ d \in Batched(ret.value) /\ e \in Batched(ret.value)
          /\ BatchOf(ret.value, d) < BatchOf(ret.value, e)

\* ---------------------------------------------------------------- C3
\* the edges still unresolved, told from the input and the batches made
UnresolvedEdges ==
    UNION {{<<n, p>> : p \in Deps[n] \ Batched(batches)} :
           n \in (DOMAIN Deps) \ Batched(batches)}

\* C3: on a node set with a dependency cycle get_batches never returns;
\* when it raises, the message lists exactly the edges name -> dependency
\* of the nodes not batched so far to their dependencies not batched so
\* far, and every such node has at least one edge listed.
C3_CycleDiagnostic ==
    HasCycle =>
        /\ ~ret.returned
        /\ gb_pc # "returned"
        /\ exc.raised =>
              /\ exc.edges = UnresolvedEdges
              /\ \A n \in (DOMAIN Deps) \ Batched(batches) :
                    \E e \in exc.edges : e[1] = n

\* a cycle found after a first batch, with a node that has two unmet
\* dependencies
C3_Witness ==
    /\ HasCycle
    /\ exc.raised
    /\ Len(batches) >= 1
    /\ \E n \in DOMAIN Deps : Cardinality({e \in exc.edges : e[1] = n}) = 2

\* ---------------------------------------------------------------- C4
\* C4: when some node names a dependency that is the name of no node, the
\* call never returns a batch sequence (not even the batches of the nodes
\* that do not depend on the missing name): the only way it ends is the
\* ValueError.
C4_UnknownDependencyRaises ==
    HasUnknownDep =>
        /\ gb_pc # "returned"
        /\ ~ret.returned
        /\ ret.value = <<>>
        /\ (gb_pc # "loop" => exc.raised)

\* the error raised for a spec list from get_build_batches whose base
\* names no spec, after a batch of unaffected nodes was already made
C4_Witness ==
    /\ HasUnknownDep
    /\ ~HasCycle
    /\ exc.raised
    /\ Len(batches) >= 1
    /\ \E sp \in SpecLists : nodes = get_build_batches(sp)

\* ---------------------------------------------------------------- strings
HasToken(s, t) == \E k \in 1..Len(s) : s[k] = t

FirstPos(s, t) == CHOOSE k \in 1..Len(s) : s[k] = t /\ \A j \in 1..(k - 1) : s[j] # t

LastPos(s, t) == CHOOSE k \in 1..Len(s) : s[k] = t /\ \A j \in (k + 1)..Len(s) : s[j] # t

\* s.rsplit('.', 1)[0]
RSplitDot(s) == IF HasToken(s, ".") THEN SubSeq(s, 1, LastPos(s, ".") - 1) ELSE s

\* os.path.join(a, b), b relative
Join(a, b) == a \o <<"/">> \o b

\* os.path.basename
Basename(s) == IF HasToken(s, "/") THEN SubSeq(s, LastPos(s, "/") + 1, Len(s)) ELSE s

Ext(e) == <<".", e>>

\* ------------------------------------------------------------- the disk
\* a file's content is a sequence of blocks, the empty file is <<>>
Size(content) == Len(content)

\* lago.utils.get_hash: the digest of a content under an algorithm
get_hash(content, checksum) == <<checksum, content>>

\* the base artifact the 'layer:' and 'simple:' specs name, a local file
BaseFile == <<"base">>

\* what a build tool writes as the image
ImgContent == <<"img">>

\* open(path, 'w') and write: the file holds the content afterwards
Put(f, path, content) ==
    [q \in (DOMAIN f) \cup {path} |-> IF q = path THEN content ELSE f[q]]

IsFile(f, path) == path \in DOMAIN f

\* os.path.isdir: the repo directory is the one directory generate_repo makes
IsDir(path) == path = repo_dir

InitialDisk == Put(<<>>, BaseFile, <<"base">>)

\* --------------------------------------------------------- images.py
\* a key of spec.props that is not set
Absent == <<>>

\* spec.props: the keys the build back-fills, and 'version', a key only the
\* spec file can give
NoProps ==
    [size |-> Absent, sha1 |-> Absent, checksum |-> Absent,
     compressed_size |-> Absent, compressed_sha1 |-> Absent,
     uncompressed_checksum |-> Absent, timestamp |-> Absent,
     version |-> Absent]

image_type_to_cls == {<<"libguestfs">>, <<"layer">>, <<"simple">>}

NoImage == [spec |-> [name |-> None, base |-> None, meta_data_only |-> FALSE],
            dst_path |-> None, base_image |-> None, cls |-> None]

\* mutant of get_instance: spec.base is split at its last colon
get_instance_LastColon(spec, dst_path) ==
    IF ~HasToken(spec.base, ":")
    THEN [err |-> "RuntimeError: base key should be in the form", image |-> NoImage]
    ELSE LET k == LastPos(spec.base, ":")
             image_type == SubSeq(spec.base, 1, k - 1)
             base_image == SubSeq(spec.base, k + 1, Len(spec.base))
         IN  IF image_type \notin image_type_to_cls
             THEN [err |-> "RuntimeError: Unsupported <image_type>", image |-> NoImage]
             ELSE [err |-> "",
                   image |-> [spec |-> spec, dst_path |-> dst_path,
                              base_image |-> base_image, cls |-> image_type]]

\* get_instance: split spec.base at the first colon and pick the class
get_instance(spec, dst_path) ==
    IF ~HasToken(spec.base, ":")
    THEN [err |-> "RuntimeError: base key should be in the form", image |-> NoImage]
    ELSE LET k == FirstPos(spec.base, ":")
             image_type == SubSeq(spec.base, 1, k - 1)
             base_image == SubSeq(spec.base, k + 1, Len(spec.base))
         IN  IF image_type \notin image_type_to_cls
             THEN [err |-> "RuntimeError: Unsupported <image_type>", image |-> NoImage]
             ELSE [err |-> "",
                   image |-> [spec |-> spec, dst_path |-> dst_path,
                              base_image |-> base_image, cls |-> image_type]]

\* the state a method of Image works on: the object's fields, the disk, the
\* exception it ends with ("" for a normal return), whether xz was run and
\* the path custom_build_action returned
Raise(st, e) == [st EXCEPT !.err = e]

\* build_utils.get_file, src a local path: where the copy lands
GetFileDst(src, dst) == IF IsDir(dst) THEN Join(dst, Basename(src)) ELSE dst

\* what the build tools may do: fail at acquiring the base, fail in a tool,
\* write the image, write an empty image, or end well without writing
ActionOutcomes == {"acquire_fail", "tool_fail", "ok", "empty", "nofile"}

\* the disk after the strategy's tools ended well at path p
ToolsWrote(f, p, out) ==
    IF out = "ok" THEN Put(f, p, ImgContent)
    ELSE IF out = "empty" THEN Put(f, p, <<>>)
    ELSE f

\* LibguestFSImage.custom_build_action
LibguestFS_custom_build_action(self, st, out) ==
    IF out \in {"acquire_fail", "tool_fail"}
    THEN Raise(st, "RuntimeError: Failed to run virt-builder")
    ELSE [st EXCEPT !.fs = ToolsWrote(st.fs, self.dst_path, out),
                    !.returned = self.dst_path]

\* LayeredImage.custom_build_action
Layered_custom_build_action(self, st, out) ==
    IF out = "acquire_fail" \/ ~IsFile(st.fs, self.base_image)
    THEN Raise(st, "OSError: copy failed")
    ELSE LET base_image_path == GetFileDst(self.base_image, self.dst_path)
             fetched == Put(st.fs, base_image_path, st.fs[self.base_image])
             layered_image_path == Join(self.dst_path, self.spec.name)
         IN  IF out = "tool_fail"
             THEN Raise([st EXCEPT !.fs = fetched], "RuntimeError: Failed to create layered image")
             ELSE [st EXCEPT !.fs = ToolsWrote(fetched, layered_image_path, out),
                             !.returned = layered_image_path]

\* mutant of Simple_custom_build_action: meta_data_only is not looked at
Simple_custom_build_action_IgnoresMetaOnly(self, st, out) ==
    IF out = "acquire_fail" \/ ~IsFile(st.fs, self.base_image)
    THEN Raise(st, "LagoImagesBuildException: Failed to build")
    ELSE LET base_image_path == GetFileDst(self.base_image, self.dst_path)
             fetched == Put(st.fs, base_image_path, st.fs[self.base_image])
         IN  IF out = "tool_fail"
             THEN Raise([st EXCEPT !.fs = fetched], "RuntimeError: Failed to run virt-customize")
             ELSE [st EXCEPT !.fs = ToolsWrote(fetched, base_image_path, out),
                             !.returned = base_image_path]

\* SimpleImage.custom_build_action
Simple_custom_build_action(self, st, out) ==
    IF out = "acquire_fail" \/ ~IsFile(st.fs, self.base_image)
    THEN Raise(st, "LagoImagesBuildException: Failed to build")
    ELSE LET base_image_path == GetFileDst(self.base_image, self.dst_path)
             fetched == Put(st.fs, base_image_path, st.fs[self.base_image])
         IN  IF self.spec.meta_data_only
             THEN [st EXCEPT !.fs = fetched, !.returned = base_image_path]
             ELSE IF out = "tool_fail"
             THEN Raise([st EXCEPT !.fs = fetched], "RuntimeError: Failed to run virt-customize")
             ELSE [st EXCEPT !.fs = ToolsWrote(fetched, base_image_path, out),
                             !.returned = base_image_path]

custom_build_action(self, st, out) ==
    IF self.cls = <<"libguestfs">> THEN LibguestFS_custom_build_action(self, st, out)
    ELSE IF self.cls = <<"layer">> THEN Layered_custom_build_action(self, st, out)
    ELSE Simple_custom_build_action(self, st, out)

\* mutant of update_meta_data_pre_compress: 'timestamp' is set here as well
update_meta_data_pre_compress_SetsTimestamp(st) ==
    IF ~IsFile(st.fs, st.built_image_path)
    THEN Raise(st, "OSError: No such file")
    ELSE LET c == st.fs[st.built_image_path]
         IN  [st EXCEPT !.props.size = <<Size(c)>>,
                        !.props.sha1 = get_hash(c, "sha1"),
                        !.props.checksum = get_hash(c, "sha512"),
                        !.props.timestamp = <<"ctime", "pre">>]

\* Image._update_meta_data_pre_compress
update_meta_data_pre_compress(st) ==
    IF ~IsFile(st.fs, st.built_image_path)
    THEN Raise(st, "OSError: No such file")
    ELSE LET c == st.fs[st.built_image_path]
         IN  [st EXCEPT !.props.size = <<Size(c)>>,
                        !.props.sha1 = get_hash(c, "sha1"),
                        !.props.checksum = get_hash(c, "sha512")]

\* mutant of update_meta_data_post_compress: 'size' and 'sha1' are set
\* again, from the compressed file
update_meta_data_post_compress_OverwritesSha1(st) ==
    IF ~IsFile(st.fs, st.built_image_path)
    THEN Raise(st, "OSError: No such file")
    ELSE LET c == st.fs[st.built_image_path]
         IN  [st EXCEPT !.props.size = <<Size(c)>>,
                        !.props.sha1 = get_hash(c, "sha1"),
                        !.props.compressed_size = <<Size(c)>>,
                        !.props.compressed_sha1 = get_hash(c, "sha1"),
                        !.props.uncompressed_checksum = get_hash(c, "sha512"),
                        !.props.timestamp = <<"ctime">>]

\* Image._update_meta_data_post_compress
update_meta_data_post_compress(st) ==
    IF ~IsFile(st.fs, st.built_image_path)
    THEN Raise(st, "OSError: No such file")
    ELSE LET c == st.fs[st.built_image_path]
         IN  [st EXCEPT !.props.compressed_size = <<Size(c)>>,
                        !.props.compressed_sha1 = get_hash(c, "sha1"),
                        !.props.uncompressed_checksum = get_hash(c, "sha512"),
                        !.props.timestamp = <<"ctime">>]

\* build_utils.xz_compress: xz --keep writes dst.xz next to dst, and fails
\* when dst is no regular file
xz_compress(st, dst, xzok) ==
    IF ~xzok \/ ~IsFile(st.fs, dst)
    THEN Raise([st EXCEPT !.xz = TRUE], "RuntimeError: Failed to compress")
    ELSE [st EXCEPT !.xz = TRUE,
                    !.fs = Put(st.fs, dst \o Ext("xz"), <<"xz">> \o st.fs[dst])]

\* mutant of compress: the built flag is not checked
compress_NoBuiltCheck(self, st, xzok) ==
    IF st.compressed THEN st
    ELSE LET z == xz_compress(st, self.dst_path, xzok)
         IN  IF z.err # "" THEN z
             ELSE [z EXCEPT !.built_image_path = @ \o Ext("xz"),
                            !.compressed = TRUE]

\* mutant of compress: the compressed flag is not checked
compress_NoCompressedCheck(self, st, xzok) ==
    IF ~st.built THEN Raise(st, "RuntimeError: You must build the image first")
    ELSE LET z == xz_compress(st, self.dst_path, xzok)
         IN  IF z.err # "" THEN z
             ELSE [z EXCEPT !.built_image_path = @ \o Ext("xz"),
                            !.compressed = TRUE]

\* Image.compress
compress(self, st, xzok) ==
    IF ~st.built THEN Raise(st, "RuntimeError: You must build the image first")
    ELSE IF st.compressed THEN st
    ELSE LET z == xz_compress(st, self.dst_path, xzok)
         IN  IF z.err # "" THEN z
             ELSE [z EXCEPT !.built_image_path = @ \o Ext("xz"),
                            !.compressed = TRUE]

\* where an I/O error may hit write_lago_metadata
IoOutcomes == {"ok", "meta_open", "meta_write", "hash_open"}

\* Image.write_lago_metadata, with get_lago_metadata evaluated after the
\* metadata file was opened for writing
write_lago_metadata(st, io) ==
    IF ~st.compressed /\ st.built_image_path = None
    THEN Raise(st, "TypeError: unsupported operand type(s) for +")
    ELSE LET base_path == IF st.compressed THEN RSplitDot(st.built_image_path)
                          ELSE st.built_image_path
             metadata_path == base_path \o Ext("metadata")
             hash_path == base_path \o Ext("hash")
             opened == [st EXCEPT !.fs = Put(st.fs, metadata_path, <<>>)]
             dumped == [st EXCEPT !.fs = Put(st.fs, metadata_path, <<"json", st.props>>)]
             hopened == [dumped EXCEPT !.fs = Put(dumped.fs, hash_path, <<>>)]
         IN  IF io = "meta_open" THEN Raise(st, "IOError")
             ELSE IF ~st.built THEN Raise(opened, "AttributeError: Not built yet")
             ELSE IF io = "meta_write" THEN Raise(opened, "IOError")
             ELSE IF io = "hash_open" THEN Raise(dumped, "IOError")
             ELSE IF st.props.sha1 = Absent THEN Raise(hopened, "KeyError: sha1")
             ELSE [dumped EXCEPT !.fs = Put(dumped.fs, hash_path, <<st.props.sha1>>)]

\* mutant of build_verify: built is set before the build action is run
build_verify_BuiltFirst(self, st, out) ==
    LET a == custom_build_action(self, [st EXCEPT !.built = TRUE], out)
    IN  IF a.err # "" THEN a
        ELSE LET b == [a EXCEPT !.built_image_path = a.returned]
             IN  IF IsFile(b.fs, b.built_image_path)
                 THEN b
                 ELSE Raise(b, "RuntimeError: Failed to build image")

\* mutant of build_verify: a new build starts from cleared flags
build_verify_ClearsFlags(self, st, out) ==
    LET a == custom_build_action(self, [st EXCEPT !.built = FALSE, !.compressed = FALSE], out)
    IN  IF a.err # "" THEN a
        ELSE LET b == [a EXCEPT !.built_image_path = a.returned]
             IN  IF IsFile(b.fs, b.built_image_path)
                 THEN [b EXCEPT !.built = TRUE]
                 ELSE Raise(b, "RuntimeError: Failed to build image")

\* mutant of build_verify: the returned path is not checked
build_verify_NoCheck(self, st, out) ==
    LET a == custom_build_action(self, st, out)
    IN  IF a.err # "" THEN a
        ELSE [a EXCEPT !.built_image_path = a.returned, !.built = TRUE]

\* Image.build up to the verification of the artifact
build_verify(self, st, out) ==
    LET a == custom_build_action(self, st, out)
    IN  IF a.err # "" THEN a
        ELSE LET b == [a EXCEPT !.built_image_path = a.returned]
             IN  IF IsFile(b.fs, b.built_image_path)
                 THEN [b EXCEPT !.built = TRUE]
                 ELSE Raise(b, "RuntimeError: Failed to build image")

\* mutant of build: the image is compressed before its size and digests
\* are recorded
build_CompressFirst(self, st, out, xzok, io) ==
    LET v == build_verify(self, st, out)
        z == IF v.err # "" THEN v ELSE compress(self, v, xzok)
        pre == IF z.err # "" THEN z ELSE update_meta_data_pre_compress(z)
        post == IF pre.err # "" THEN pre ELSE update_meta_data_post_compress(pre)
    IN  IF post.err # "" THEN post ELSE write_lago_metadata(post, io)

\* Image.build
build(self, st, out, xzok, io) ==
    LET v == build_verify(self, st, out)
        pre == IF v.err # "" THEN v ELSE update_meta_data_pre_compress(v)
        z == IF pre.err # "" THEN pre ELSE compress(self, pre, xzok)
        post == IF z.err # "" THEN z ELSE update_meta_data_post_compress(z)
    IN  IF post.err # "" THEN post ELSE write_lago_metadata(post, io)

Imgs == 1..Len(images)

\* the state of image i as a method sees it on entry
St(i) ==
    [built |-> built[i], compressed |-> compressed[i],
     built_image_path |-> built_image_path[i], props |-> props[i],
     fs |-> fs, err |-> "", xz |-> FALSE, returned |-> None]

\* the call op on image i ended in state r
Ends(op, i, r) ==
    /\ built' = [built EXCEPT ![i] = r.built]
    /\ compressed' = [compressed EXCEPT ![i] = r.compressed]
    /\ built_image_path' = [built_image_path EXCEPT ![i] = r.built_image_path]
    /\ props' = [props EXCEPT ![i] = r.props]
    /\ fs' = r.fs
    /\ last' = [op |-> op, img |-> i, err |-> r.err, xz |-> r.xz, returned |-> r.returned]

\* image.build() called by a client of the class
CallBuild ==
    /\ run_pc = "idle"
    /\ \E i \in Imgs, out \in ActionOutcomes, xzok \in BOOLEAN, io \in IoOutcomes :
           Ends("build", i, build(images[i], St(i), out, xzok, io))
    /\ UNCHANGED <<repo_dir, specs, images, repoVars, resolverVars>>

\* image.compress() called by a client of the class
CallCompress ==
    /\ run_pc = "idle"
    /\ \E i \in Imgs, xzok \in BOOLEAN : Ends("compress", i, compress(images[i], St(i), xzok))
    /\ UNCHANGED <<repo_dir, specs, images, repoVars, resolverVars>>

\* image.write_lago_metadata() called by a client of the class
CallWriteMetadata ==
    /\ run_pc = "idle"
    /\ \E i \in Imgs, io \in IoOutcomes : Ends("write_lago_metadata", i, write_lago_metadata(St(i), io))
    /\ UNCHANGED <<repo_dir, specs, images, repoVars, resolverVars>>

\* the spec files: name, base and the optional meta_data_only property
ImgNames == {<<"a">>, <<"b">>}

\* a locator may hold a colon itself
ColonBase == <<"simple", ":", "layer", ":", "base">>

GoodBases == {LgBase, <<"layer", ":", "base">>, <<"simple", ":", "base">>, ColonBase}

BadBases == {<<"nocolon">>, <<"docker", ":", "base">>}

ImgSpecs(bases) ==
    [name : ImgNames, base : bases, meta_data_only : {FALSE}]
    \cup [name : ImgNames, base : {<<"simple", ":", "base">>}, meta_data_only : {TRUE}]

\* Image.__init__ for each spec of the list
RECURSIVE NewImages(_, _)
NewImages(sp, dir) ==
    IF sp = <<>> THEN <<>>
    ELSE Append(NewImages(SubSeq(sp, 1, Len(sp) - 1), dir),
                get_instance(sp[Len(sp)], Join(dir, sp[Len(sp)].name)).image)

\* the fields Image.__init__ sets, for n images
FreshImages(sp, dir) ==
    /\ repo_dir = dir
    /\ specs = sp
    /\ images = NewImages(sp, dir)
    /\ built = [i \in 1..Len(sp) |-> FALSE]
    /\ compressed = [i \in 1..Len(sp) |-> FALSE]
    /\ built_image_path = [i \in 1..Len(sp) |-> None]
    /\ props = [i \in 1..Len(sp) |-> NoProps]
    /\ fs = InitialDisk
    /\ last = [op |-> "", img |-> 0, err |-> "", xz |-> FALSE, returned |-> None]


ResolverIdle == ResolverStarts(<<>>)

\* an Image made by get_instance, then used through its methods in any order
InitImage ==
    /\ \E spec \in ImgSpecs(GoodBases) :
           spec.name = <<"a">> /\ FreshImages(<<spec>>, DefaultRepoDir)
    /\ run_pc = "idle"
    /\ cur = 0
    /\ outcome = <<>>
    /\ repo_format = "all"
    /\ ResolverIdle

NextImage == CallBuild \/ CallCompress \/ CallWriteMetadata

SpecImage == InitImage /\ [][NextImage]_vars

\* ------------------------------------------------------- cmd.py, createrepo.py
EndsWith(s, suffix) ==
    /\ Len(s) >= Len(suffix)
    /\ SubSeq(s, Len(s) - Len(suffix) + 1, Len(s)) = suffix

\* the files os.walk(repo_dir).next() lists: those directly in the directory
InDir(dir, path) ==
    /\ Len(path) > Len(dir) + 1
    /\ SubSeq(path, 1, Len(dir) + 1) = dir \o <<"/">>
    /\ ~HasToken(SubSeq(path, Len(dir) + 2, Len(path)), "/")

MetadataFiles(f, dir) ==
    {path \in DOMAIN f : InDir(dir, path) /\ EndsWith(path, Ext("metadata"))}

\* json.load of a metadata file fails on a file that holds no document
LoadsAsJson(content) == Len(content) = 2 /\ content[1] = "json"

\* spec[key] of a loaded document raises KeyError when the key is not set
HasKey(content, key) == key \in DOMAIN content[2] /\ content[2][key] # Absent

\* the handles of the metadata files: the file names without the suffix
Handles(docs) == {RSplitDot(Basename(path)) : path \in docs}

\* create_repo_from_metadata: every file of the directory that ends in
\* '.metadata' is loaded, a repo.metadata of an earlier call included; each
\* gives a version entry made of its 'version' and 'timestamp' keys and of
\* its handle, then the index is dumped to repo.metadata. The first file of
\* the listing that does not load or lacks a key raises.
create_repo_from_metadata(f, dir) ==
    LET docs == MetadataFiles(f, dir)
        undecoded == {path \in docs : ~LoadsAsJson(f[path])}
        keyless == {path \in docs \ undecoded :
                       ~HasKey(f[path], "version") \/ ~HasKey(f[path], "timestamp")}
    IN  IF undecoded # {} /\ keyless # {}
        THEN [err |-> "ValueError or KeyError, as the listing orders the files", fs |-> f]
        ELSE IF undecoded # {}
        THEN [err |-> "ValueError: No JSON object could be decoded", fs |-> f]
        ELSE IF keyless # {}
        THEN [err |-> "KeyError", fs |-> f]
        ELSE [err |-> "",
              fs |-> Put(f, Join(dir, <<"repo", ".", "metadata">>),
                         <<"json", [templates |-> Handles(docs)]>>)]

\* the property keys a spec file may give
AllKeys == {"name", "base", "distro", "osinfo", "arch", "expand", "size"}

\* required_props of Spec, LagoSpec, VirtBuilderSpec and AllSpec
required_props(cls) ==
    IF cls = "LagoSpec" THEN {"name", "base", "distro"}
    ELSE IF cls = "VirtBuilderSpec" THEN {"name", "base", "osinfo", "arch", "expand", "size"}
    ELSE IF cls = "AllSpec"
    THEN {"name", "base", "distro"} \cup {"name", "base", "osinfo", "arch", "expand", "size"}
    ELSE {"name"}

\* generate_repo, lines 71-76: the Spec class of the repo format
spec_cls(format) ==
    IF format = "lago" THEN "LagoSpec"
    ELSE IF format = "virt-builder" THEN "VirtBuilderSpec"
    ELSE "AllSpec"

\* mutant of from_spec_file: verify() is not called
from_spec_file_NoVerify(file, cls) ==
    [err |-> "",
     spec |-> [name |-> file.name, base |-> file.base,
               meta_data_only |-> file.meta_data_only]]

\* Spec.from_spec_file: the properties of the file, then verify(), which
\* raises when a required property is missing
from_spec_file(file, cls) ==
    IF required_props(cls) \subseteq file.keys
    THEN [err |-> "",
          spec |-> [name |-> file.name, base |-> file.base,
                    meta_data_only |-> file.meta_data_only]]
    ELSE [err |-> "Exception: Malformed spec file", spec |-> NoImage.spec]

\* the Spec objects of a list of spec files
LoadSpecs(files, cls) == [k \in 1..Len(files) |-> from_spec_file(files[k], cls).spec]

\* spec.props of a fresh Spec: 'size' and 'version' hold what the file
\* declares
FileProps(file) ==
    [NoProps EXCEPT
        !.size = IF "size" \in file.keys THEN <<"declared">> ELSE Absent,
        !.version = IF "version" \in file.keys THEN <<"v1">> ELSE Absent]

\* generate_repo, lines 78-84: a Spec and an Image per spec file; an
\* exception of from_spec_file or get_instance ends the run
CreateImages ==
    /\ run_pc = "create"
    /\ IF \E k \in 1..Len(specs) :
              LET loaded == from_spec_file(specs[k], spec_cls(repo_format))
              IN  \/ loaded.err # ""
                  \/ get_instance(loaded.spec, Join(repo_dir, loaded.spec.name)).err # ""
       THEN /\ run_pc' = "failed"
            /\ UNCHANGED <<imageVars, cur, outcome>>
       ELSE /\ run_pc' = "build"
            /\ cur' = 1
            /\ images' = NewImages(LoadSpecs(specs, spec_cls(repo_format)), repo_dir)
            /\ built' = [i \in 1..Len(specs) |-> FALSE]
            /\ compressed' = [i \in 1..Len(specs) |-> FALSE]
            /\ built_image_path' = [i \in 1..Len(specs) |-> None]
            /\ props' = [i \in 1..Len(specs) |-> FileProps(specs[i])]
            /\ outcome' = [i \in 1..Len(specs) |-> "pending"]
            /\ UNCHANGED <<repo_dir, specs, fs, last>>
    /\ UNCHANGED <<resolverVars, repo_format>>

\* build() of image i ended in state r while generate_repo drives it
RunBuildEnds(i, r) ==
    /\ Ends("build", i, r)
    /\ run_pc' = IF r.err # "" THEN "failed" ELSE run_pc
    /\ outcome' = [outcome EXCEPT ![i] = IF r.err # "" THEN "failed" ELSE "ok"]
    /\ cur' = IF r.err # "" THEN cur ELSE cur + 1

\* generate_repo, lines 86-87: image.build() of the next image; an exception
\* it raises leaves generate_repo
BuildNextImage ==
    /\ run_pc = "build"
    /\ cur <= Len(images)
    /\ \E out \in ActionOutcomes, xzok \in BOOLEAN, io \in IoOutcomes :
           RunBuildEnds(cur, build(images[cur], St(cur), out, xzok, io))
    /\ UNCHANGED <<repo_dir, specs, images, resolverVars, repo_format>>

\* create_repo_from_metadata ended in r while generate_repo drives it
RunRepoEnds(r) ==
    /\ fs' = r.fs
    /\ run_pc' = IF r.err # "" THEN "failed" ELSE "done"

\* generate_repo, line 89: the index of the repo, after the last build
CreateRepo ==
    /\ run_pc = "build"
    /\ cur > Len(images)
    /\ RunRepoEnds(create_repo_from_metadata(fs, repo_dir))
    /\ UNCHANGED <<repo_dir, specs, images, built, compressed, built_image_path,
                   props, last, cur, outcome, resolverVars, repo_format>>

\* the spec files of a run: the well formed ones, which give the optional
\* 'version', some that do not give it, and some that lack a required key
SpecFiles ==
    {[name |-> s.name, base |-> s.base, meta_data_only |-> s.meta_data_only,
      keys |-> AllKeys \cup {"version"}] : s \in ImgSpecs(GoodBases \cup BadBases)}
    \cup {[name |-> n, base |-> LgBase, meta_data_only |-> FALSE,
            keys |-> AllKeys] : n \in ImgNames}
    \cup {[name |-> IF k = "name" THEN Absent ELSE <<"a">>, base |-> LgBase,
            meta_data_only |-> FALSE, keys |-> AllKeys \ {k}] :
          k \in {"name", "distro", "expand"}}

\* generate_repo is entered with a list of spec files and a fresh repo
InitRepo ==
    /\ \E sp \in SeqsUpTo(SpecFiles, MaxRunSpecs) :
           /\ specs = sp
           /\ repo_dir = DefaultRepoDir
    /\ repo_format \in {"all", "lago", "virt-builder"}
    /\ images = <<>>
    /\ built = <<>>
    /\ compressed = <<>>
    /\ built_image_path = <<>>
    /\ props = <<>>
    /\ fs = InitialDisk
    /\ last = [op |-> "", img |-> 0, err |-> "", xz |-> FALSE, returned |-> None]
    /\ run_pc = "create"
    /\ cur = 0
    /\ outcome = <<>>
    /\ ResolverIdle

\* main with --create-repo-only, on the directory a run has left: only
\* create_repo_from_metadata is called
CreateRepoOnly ==
    /\ run_pc \in {"done", "failed", "repo_only_done"}
    /\ LET r == create_repo_from_metadata(fs, repo_dir)
       IN  /\ fs' = r.fs
           /\ run_pc' = IF r.err # "" THEN "repo_only_failed" ELSE "repo_only_done"
    /\ UNCHANGED <<repo_dir, specs, images, built, compressed, built_image_path,
                   props, last, cur, outcome, resolverVars, repo_format>>

NextRepo == CreateImages \/ BuildNextImage \/ CreateRepo

SpecRepo == InitRepo /\ [][NextRepo]_vars

\* a run of generate_repo followed by invocations with --create-repo-only
NextRepoOnly == CreateImages \/ BuildNextImage \/ CreateRepo \/ CreateRepoOnly

SpecRepoOnly == InitRepo /\ [][NextRepoOnly]_vars

\* ------------------------------------------- build_utils.py: downloads
\* the base artifacts a locator may name by URL
Urls == {<<"http", ":", "//", "host", "/", "base">>, <<"https", ":", "//", "host", "/", "other">>}

\* is_url: the scheme is http or https
is_url(src) == HasToken(src, ":") /\ SubSeq(src, 1, FirstPos(src, ":") - 1) \in {<<"http">>, <<"https">>}

\* filename_from_url: the basename of the URL's path
filename_from_url(url) == Basename(url)

\* what the server holds for a URL: MaxChunks chunks, as iter_content
\* yields them
RemoteContent(url) == [k \in 1..MaxChunks |-> filename_from_url(url)[1]]

\* download_from_url: nothing is done when dst is a file and force is not
\* given; else the request is made, raise_for_status may raise, dst is
\* opened for writing and the chunks are written as they come; the
\* connection may break after got chunks
download_from_url(f, url, dst, force, statusok, got) ==
    IF IsFile(f, dst) /\ ~force THEN [err |-> "", fs |-> f]
    ELSE IF ~statusok THEN [err |-> "HTTPError", fs |-> f]
    ELSE [err |-> IF got < MaxChunks THEN "ConnectionError" ELSE "",
          fs |-> Put(f, dst, SubSeq(RemoteContent(url), 1, got))]

\* where get_file puts the file of a URL
UrlDst(src, dst) == IF IsDir(dst) THEN Join(dst, filename_from_url(src)) ELSE dst

\* get_file: a URL is downloaded, without force; a local path is copied
get_file(f, src, dst, statusok, got) ==
    IF is_url(src)
    THEN download_from_url(f, src, UrlDst(src, dst), FALSE, statusok, got)
    ELSE IF IsFile(f, src)
    THEN [err |-> "", fs |-> Put(f, GetFileDst(src, dst), f[src])]
    ELSE [err |-> "OSError: copy failed", fs |-> f]

\* a call that fetches a URL ended in r
FetchEnds(op, url, r) ==
    /\ fs' = r.fs
    /\ last' = [op |-> op, img |-> 0, err |-> r.err, xz |-> FALSE,
                returned |-> UrlDst(url, repo_dir)]

\* download_from_url(url, dst) called with the path get_file gives it
CallDownloadFromUrl ==
    /\ run_pc = "idle"
    /\ \E url \in Urls, force \in BOOLEAN, statusok \in BOOLEAN, got \in 0..MaxChunks :
           FetchEnds("download_from_url", url,
                     download_from_url(fs, url, UrlDst(url, repo_dir), force, statusok, got))
    /\ UNCHANGED <<repo_dir, specs, images, built, compressed, built_image_path, props,
                   repoVars, resolverVars>>

\* get_file(url, repo_dir): the acquisition of a base artifact by URL
CallGetFile ==
    /\ run_pc = "idle"
    /\ \E url \in Urls, statusok \in BOOLEAN, got \in 0..MaxChunks :
           FetchEnds("get_file", url, get_file(fs, url, repo_dir, statusok, got))
    /\ UNCHANGED <<repo_dir, specs, images, built, compressed, built_image_path, props,
                   repoVars, resolverVars>>

\* an empty repo directory, no image, and base artifacts fetched in any order
InitDownload == NoImages /\ ResolverIdle

NextDownload == CallDownloadFromUrl \/ CallGetFile

SpecDownload == InitDownload /\ [][NextDownload]_vars

\* ------------------------------------------------------------ bin/build.py
\* a second virt-builder base
LgBase2 == <<"libguestfs", ":", "el7">>

\* the property keys a spec file of bin/build.py may give
BuildKeys == {"name", "base", "distro", "osinfo", "arch", "expand"}

\* required_props of the Spec classes of bin/build.py
build_required_props(cls) ==
    IF cls = "LagoSpec" THEN {"name", "base", "distro"}
    ELSE IF cls = "VirtBuilderSpec" THEN {"name", "base", "osinfo", "arch", "expand"}
    ELSE IF cls = "AllSpec"
    THEN {"name", "base", "distro"} \cup {"name", "base", "osinfo", "arch", "expand"}
    ELSE {"name"}

\* Spec.from_spec_file of bin/build.py: props['id'] is the base name of the
\* file; verify() raises when a required property is missing
build_from_spec_file(file, cls) ==
    IF build_required_props(cls) \subseteq file.keys
    THEN [err |-> "", spec |-> [id |-> file.id, base |-> file.base]]
    ELSE [err |-> "Exception: Malformed spec file", spec |-> [id |-> None, base |-> None]]

\* the spec files handed to generate_repo: well formed ones whose base is
\* a virt-builder image or the id of a spec, and one that lacks a key
BuildSpecFiles ==
    [id : Names, base : {LgBase, LgBase2, <<"a">>, <<"b">>}, keys : {BuildKeys}]
    \cup {[id |-> <<"a">>, base |-> LgBase, keys |-> BuildKeys \ {"distro"}]}

\* the Image fields the build back-fills: uncompressed_size,
\* uncompressed_checksum_sha1 and uncompressed_checksum_sha512, each kept
\* equal to spec.props['size'], ['sha1'] and ['sha512']
OldNoProps == [size |-> Absent, sha1 |-> Absent, sha512 |-> Absent]

\* Image.build, lines 178-183: the base handed to the build function
base_image_of(spec) ==
    IF StartsWith(spec.base, <<"libguestfs", ":">>)
    THEN SubSeq(spec.base, FirstPos(spec.base, ":") + 1, Len(spec.base))
    ELSE spec.base

\* how the external tools of a build may end: a command fails, the image
\* is written, or the commands end well and leave no image
OldOutcomes == {"tool_fail", "ok", "nofile"}

\* the image virt-builder or qemu-img writes names the base it was made on
OldToolsWrote(f, p, out, base_image) ==
    IF out = "ok" THEN Put(f, p, <<"img", base_image>>) ELSE f

\* mutant of old_build: the build function is handed the spec's id as base
old_build_BaseIsOwnId(self, st, out) ==
    IF out = "tool_fail" THEN Raise(st, "RuntimeError: Failed to execute command")
    ELSE LET f == OldToolsWrote(st.fs, st.built_image_path, out, self.spec.id)
         IN  IF ~IsFile(f, st.built_image_path)
             THEN Raise([st EXCEPT !.fs = f], "OSError: No such file")
             ELSE LET c == f[st.built_image_path]
                  IN  [st EXCEPT !.fs = f,
                                 !.props.size = <<Size(c)>>,
                                 !.props.sha1 = get_hash(c, "sha1"),
                                 !.props.sha512 = get_hash(c, "sha512"),
                                 !.built = TRUE]

\* Image.build of bin/build.py
old_build(self, st, out) ==
    IF out = "tool_fail" THEN Raise(st, "RuntimeError: Failed to execute command")
    ELSE LET f == OldToolsWrote(st.fs, st.built_image_path, out, base_image_of(self.spec))
         IN  IF ~IsFile(f, st.built_image_path)
             THEN Raise([st EXCEPT !.fs = f], "OSError: No such file")
             ELSE LET c == f[st.built_image_path]
                  IN  [st EXCEPT !.fs = f,
                                 !.props.size = <<Size(c)>>,
                                 !.props.sha1 = get_hash(c, "sha1"),
                                 !.props.sha512 = get_hash(c, "sha512"),
                                 !.built = TRUE]

\* Image.compress of bin/build.py: xz --keep on self.path
old_compress(st, xzok) ==
    IF ~st.built THEN Raise(st, "RuntimeError: You must build the image first")
    ELSE IF st.compressed THEN st
    ELSE LET z == xz_compress(st, st.built_image_path, xzok)
         IN  IF z.err # "" THEN z
             ELSE [z EXCEPT !.built_image_path = @ \o Ext("xz"),
                            !.compressed = TRUE]

\* Image.write_lago_metadata of bin/build.py, with get_lago_metadata
\* evaluated after the metadata file was opened for writing
old_write_lago_metadata(st, io) ==
    LET base_path == IF st.compressed THEN RSplitDot(st.built_image_path)
                     ELSE st.built_image_path
        metadata_path == base_path \o Ext("metadata")
        hash_path == base_path \o Ext("hash")
        opened == [st EXCEPT !.fs = Put(st.fs, metadata_path, <<>>)]
        dumped == [st EXCEPT !.fs = Put(st.fs, metadata_path, <<"json", st.props>>)]
        hopened == [dumped EXCEPT !.fs = Put(dumped.fs, hash_path, <<>>)]
    IN  IF io = "meta_open" THEN Raise(st, "IOError")
        ELSE IF ~st.built THEN Raise(opened, "AttributeError: Not built yet")
        ELSE IF io = "meta_write" THEN Raise(opened, "IOError")
        ELSE IF io = "hash_open" THEN Raise(dumped, "IOError")
        ELSE IF st.props.sha1 = Absent THEN Raise(hopened, "TypeError: expected a character buffer object")
        ELSE [dumped EXCEPT !.fs = Put(dumped.fs, hash_path, <<st.props.sha1>>)]

\* the block get_libguestfs_metadata returns for an image: its section
\* line and its file line
IndexBlock(self, st) ==
    <<"[lago-">> \o Basename(self.spec.id) \o <<"]", "file=">> \o Basename(st.built_image_path)

\* mutant of old_get_libguestfs_metadata: the compressed flag is not checked
old_get_libguestfs_metadata_NoCheck(self, st) ==
    IF ~IsFile(st.fs, st.built_image_path) THEN Raise(st, "OSError: No such file")
    ELSE [st EXCEPT !.returned = IndexBlock(self, st)]

\* Image.get_libguestfs_metadata
old_get_libguestfs_metadata(self, st) ==
    IF ~st.compressed THEN Raise(st, "AttributeError: Not built yet")
    ELSE IF ~IsFile(st.fs, st.built_image_path) THEN Raise(st, "OSError: No such file")
    ELSE [st EXCEPT !.returned = IndexBlock(self, st)]

\* generate_lago_repo_metadata: a template per '.xz' file of the directory
generate_lago_repo_metadata(f, dir) ==
    Put(f, Join(dir, <<"repo", ".", "metadata">>),
        <<"repo", {RSplitDot(Basename(path)) :
                   path \in {q \in DOMAIN f : InDir(dir, q) /\ EndsWith(q, Ext("xz"))}}>>)

\* generate_virt_builder_repo_metadata, lines 466-467: the blocks of the
\* images, written to 'index'
write_index(f, dir, blocks) == Put(f, Join(dir, <<"index">>), <<"index", blocks>>)

\* the orders a set may be iterated in
RECURSIVE Perms(_)
Perms(S) ==
    IF S = {} THEN {<<>>}
    ELSE UNION {{<<x>> \o p : p \in Perms(S \ {x})} : x \in S}

\* mutant of Linearize: the batches are taken last to first
RECURSIVE Linearize_Reversed(_, _)
Linearize_Reversed(bs, inst) ==
    IF bs = <<>> THEN {<<>>}
    ELSE {p \o q : p \in Perms({n \in bs[Len(bs)] : inst[n].value # None}),
                   q \in Linearize_Reversed(SubSeq(bs, 1, Len(bs) - 1), inst)}

\* generate_repo, lines 517-523: the nodes of the batches, batch by batch,
\* those without a value left out; a batch is iterated in any order
RECURSIVE Linearize(_, _)
Linearize(bs, inst) ==
    IF bs = <<>> THEN {<<>>}
    ELSE {p \o q : p \in Perms({n \in Head(bs) : inst[n].value # None}),
                   q \in Linearize(Tail(bs), inst)}

\* the Spec a node carries: that of the last spec file with the id
SpecOf(files, id) ==
    LET k == CHOOSE i \in 1..Len(files) :
                 /\ files[i].id = id
                 /\ \A j \in (i + 1)..Len(files) : files[j].id # id
    IN  [id |-> files[k].id, base |-> files[k].base]

\* Image(spec=node.value, path=os.path.join(repo_dir, node.value.id))
OldImage(spec, path) == [spec |-> spec, dst_path |-> path]

\* the stages of generate_repo after the images are made, in order
Stages == <<"build", "compress", "metadata", "lago_index", "vb_blocks", "vb_index", "done">>

\* whether generate_repo has something to do in a stage
HasWork(stage, n, format) ==
    IF stage \in {"build", "compress"} THEN n > 0
    ELSE IF stage = "metadata" THEN n > 0 /\ format \in {"lago", "all"}
    ELSE IF stage = "lago_index" THEN format \in {"lago", "all"}
    ELSE IF stage = "vb_blocks" THEN n > 0 /\ format \in {"virt-builder", "all"}
    ELSE IF stage = "vb_index" THEN format \in {"virt-builder", "all"}
    ELSE TRUE

StageIndex(stage) == CHOOSE k \in 1..Len(Stages) : Stages[k] = stage

\* the first stage from position k on that has something to do
FirstStageFrom(k, n, format) ==
    Stages[CHOOSE j \in k..Len(Stages) :
               /\ HasWork(Stages[j], n, format)
               /\ \A m \in k..(j - 1) : ~HasWork(Stages[m], n, format)]

\* the stage that follows a stage
StageAfter(stage, n, format) == FirstStageFrom(StageIndex(stage) + 1, n, format)

\* get_build_batches, lines 562-565: the specs are loaded; a malformed one
\* ends the run, else get_batches is entered with the nodes
PlanBuild ==
    /\ run_pc = "plan"
    /\ IF \E k \in 1..Len(specs) :
              build_from_spec_file(specs[k], spec_cls(repo_format)).err # ""
       THEN /\ run_pc' = "failed"
            /\ UNCHANGED resolverVars
       ELSE /\ run_pc' = "resolve"
            /\ nodes' = get_build_batches(specs)
            /\ name_to_deps' = InitialDeps(get_build_batches(specs))
            /\ batches' = <<>>
            /\ gb_pc' = "loop"
            /\ UNCHANGED <<ret, exc>>
    /\ UNCHANGED <<imageVars, cur, outcome, repo_format>>

\* the ValueError of get_batches leaves generate_repo
ResolveFailed ==
    /\ run_pc = "resolve"
    /\ gb_pc = "raised"
    /\ run_pc' = "failed"
    /\ UNCHANGED <<resolverVars, imageVars, cur, outcome, repo_format>>

\* the images of the run, in the order lin
ImagesMade(lin) ==
    /\ images' = [k \in 1..Len(lin) |-> OldImage(SpecOf(specs, lin[k]), Join(repo_dir, lin[k]))]
    /\ built' = [k \in 1..Len(lin) |-> FALSE]
    /\ compressed' = [k \in 1..Len(lin) |-> FALSE]
    /\ built_image_path' = [k \in 1..Len(lin) |-> Join(repo_dir, lin[k])]
    /\ props' = [k \in 1..Len(lin) |-> OldNoProps]
    /\ outcome' = [k \in 1..Len(lin) |-> "pending"]
    /\ run_pc' = FirstStageFrom(1, Len(lin), repo_format)
    /\ cur' = 1

\* generate_repo, lines 516-523: an Image per node that carries a spec
MakeImages ==
    /\ run_pc = "resolve"
    /\ gb_pc = "returned"
    /\ \E lin \in Linearize(ret.value, name_to_instance(nodes)) : ImagesMade(lin)
    /\ UNCHANGED <<repo_dir, specs, fs, last, repo_format, resolverVars>>

\* a call of a loop of generate_repo on image i ended in state r: an
\* exception leaves generate_repo, else the loop goes on or the next stage
\* starts
LoopCallEnds(op, i, r) ==
    /\ Ends(op, i, r)
    /\ run_pc' = IF r.err # "" THEN "failed"
                 ELSE IF i < Len(images) THEN run_pc
                 ELSE StageAfter(run_pc, Len(images), repo_format)
    /\ cur' = IF r.err # "" THEN cur ELSE IF i < Len(images) THEN i + 1 ELSE 1
    /\ outcome' = IF op = "build"
                  THEN [outcome EXCEPT ![i] = IF r.err # "" THEN "failed" ELSE "ok"]
                  ELSE outcome

\* generate_repo, lines 525-528
BuildImage ==
    /\ run_pc = "build"
    /\ \E out \in OldOutcomes : LoopCallEnds("build", cur, old_build(images[cur], St(cur), out))
    /\ UNCHANGED <<repo_dir, specs, images, repo_format, resolverVars>>

\* generate_repo, lines 530-531
CompressImage ==
    /\ run_pc = "compress"
    /\ \E xzok \in BOOLEAN : LoopCallEnds("compress", cur, old_compress(St(cur), xzok))
    /\ UNCHANGED <<repo_dir, specs, images, repo_format, resolverVars>>

\* generate_repo, lines 533-535
WriteImageMetadata ==
    /\ run_pc = "metadata"
    /\ \E io \in IoOutcomes :
           LoopCallEnds("write_lago_metadata", cur, old_write_lago_metadata(St(cur), io))
    /\ UNCHANGED <<repo_dir, specs, images, repo_format, resolverVars>>

\* generate_repo, lines 538-543
LagoIndex ==
    /\ run_pc = "lago_index"
    /\ fs' = generate_lago_repo_metadata(fs, repo_dir)
    /\ run_pc' = StageAfter(run_pc, Len(images), repo_format)
    /\ UNCHANGED <<repo_dir, specs, images, built, compressed, built_image_path,
                   props, last, cur, outcome, repo_format, resolverVars>>

\* generate_virt_builder_repo_metadata, lines 463-464
IndexBlockOfImage ==
    /\ run_pc = "vb_blocks"
    /\ LoopCallEnds("get_libguestfs_metadata", cur,
                    old_get_libguestfs_metadata(images[cur], St(cur)))
    /\ UNCHANGED <<repo_dir, specs, images, repo_format, resolverVars>>

\* generate_virt_builder_repo_metadata, lines 466-467
WriteIndex ==
    /\ run_pc = "vb_index"
    /\ fs' = write_index(fs, repo_dir,
                         [k \in Imgs |-> old_get_libguestfs_metadata(images[k], St(k)).returned])
    /\ run_pc' = "done"
    /\ UNCHANGED <<repo_dir, specs, images, built, compressed, built_image_path,
                   props, last, cur, outcome, repo_format, resolverVars>>

\* image.build() called by a client of the class
OldCallBuild ==
    /\ run_pc = "idle"
    /\ \E i \in Imgs, out \in OldOutcomes : Ends("build", i, old_build(images[i], St(i), out))
    /\ UNCHANGED <<repo_dir, specs, images, repoVars, resolverVars>>

\* image.compress() called by a client of the class
OldCallCompress ==
    /\ run_pc = "idle"
    /\ \E i \in Imgs, xzok \in BOOLEAN : Ends("compress", i, old_compress(St(i), xzok))
    /\ UNCHANGED <<repo_dir, specs, images, repoVars, resolverVars>>

\* image.write_lago_metadata() called by a client of the class
OldCallWriteMetadata ==
    /\ run_pc = "idle"
    /\ \E i \in Imgs, io \in IoOutcomes :
           Ends("write_lago_metadata", i, old_write_lago_metadata(St(i), io))
    /\ UNCHANGED <<repo_dir, specs, images, repoVars, resolverVars>>

\* image.get_libguestfs_metadata() called by a client of the class
OldCallGetLibguestfsMetadata ==
    /\ run_pc = "idle"
    /\ \E i \in Imgs :
           Ends("get_libguestfs_metadata", i, old_get_libguestfs_metadata(images[i], St(i)))
    /\ UNCHANGED <<repo_dir, specs, images, repoVars, resolverVars>>

\* get_batches is not running
ResolverNotEntered ==
    /\ nodes = <<>>
    /\ name_to_deps = <<>>
    /\ batches = <<>>
    /\ gb_pc = "idle"
    /\ ret = [returned |-> FALSE, value |-> <<>>]
    /\ exc = [raised |-> FALSE, edges |-> {}]

\* generate_repo of bin/build.py is entered with a list of spec files
InitBuildRun ==
    /\ specs \in SeqsUpTo(BuildSpecFiles, MaxBuildSpecs)
    /\ repo_format \in {"all", "lago", "virt-builder"}
    /\ run_pc = "plan"
    /\ images = <<>>
    /\ built = <<>>
    /\ compressed = <<>>
    /\ built_image_path = <<>>
    /\ props = <<>>
    /\ outcome = <<>>

\* an Image of bin/build.py in the hands of a client of the class
InitBuildImage ==
    /\ \E file \in BuildSpecFiles :
           /\ file.id = <<"a">>
           /\ file.keys = BuildKeys
           /\ specs = <<file>>
           /\ images = <<OldImage([id |-> file.id, base |-> file.base],
                                  Join(DefaultRepoDir, file.id))>>
           /\ built_image_path = <<Join(DefaultRepoDir, file.id)>>
    /\ repo_format = "all"
    /\ run_pc = "idle"
    /\ built = <<FALSE>>
    /\ compressed = <<FALSE>>
    /\ props = <<OldNoProps>>
    /\ outcome = <<>>

InitBuild ==
    /\ repo_dir = DefaultRepoDir
    /\ fs = <<>>
    /\ last = [op |-> "", img |-> 0, err |-> "", xz |-> FALSE, returned |-> None]
    /\ cur = 0
    /\ ResolverNotEntered
    /\ (InitBuildRun \/ InitBuildImage)

NextBuild ==
    \/ PlanBuild
    \/ GetBatchesStep
    \/ GetBatchesRaise
    \/ GetBatchesReturn
    \/ ResolveFailed
    \/ MakeImages
    \/ BuildImage
    \/ CompressImage
    \/ WriteImageMetadata
    \/ LagoIndex
    \/ IndexBlockOfImage
    \/ WriteIndex
    \/ OldCallBuild
    \/ OldCallCompress
    \/ OldCallWriteMetadata
    \/ OldCallGetLibguestfsMetadata

SpecBuild == InitBuild /\ [][NextBuild]_vars

\* ------------------------------------------------ image claims: vocabulary
NotBuiltFirst == "RuntimeError: You must build the image first"

\* the step is a call of method op on image i
Called(op, i) == last'.op = op /\ last'.img = i

\* the stage the flags of image i stand for
Stage(i) == IF compressed[i] THEN 2 ELSE IF built[i] THEN 1 ELSE 0

C6_CompressNeedsBuilt ==
    [][\A i \in Imgs :
          Called("compress", i) /\ ~built[i] =>
              /\ last'.err = NotBuiltFirst
              /\ ~last'.xz
              /\ ~built'[i]
              /\ compressed'[i] = compressed[i]
              /\ built_image_path'[i] = built_image_path[i]
              /\ fs' = fs]_vars

\* compress() refused on an image whose build had failed at verification
C6_Witness ==
    /\ last.op = "compress"
    /\ last.err = NotBuiltFirst
    /\ ~built[last.img]
    /\ built_image_path[last.img] # None

\* ---------------------------------------------------------------- C7
\* C7: write_lago_metadata() on an image that is not built fails and
\* writes nothing: the disk is as it was (no metadata or hash file is
\* created, truncated or changed).
C7_MetadataNeedsBuilt ==
    [][\A i \in Imgs :
          Called("write_lago_metadata", i) /\ ~built[i] =>
              /\ last'.err # ""
              /\ fs' = fs]_vars

C9_BuiltOnlyAfterNonEmpty ==
    [][\A i \in Imgs :
          ~built[i] /\ built'[i] =>
              /\ Called("build", i)
              /\ last'.returned # None
              /\ IsFile(fs', last'.returned)
              /\ Size(fs'[last'.returned]) > 0]_vars

\* C9, amended: built is set only by a build() whose build action returned
\* a path that exists as a file (of any size) at that moment, and a build()
\* whose build action returned a path that does not exist fails with
\* 'Failed to build image' and does not set built.
C9_BuiltOnlyAfterVerified ==
    [][\A i \in Imgs :
          /\ ~built[i] /\ built'[i] =>
                /\ Called("build", i)
                /\ last'.returned # None
                /\ IsFile(fs', last'.returned)
          /\ Called("build", i) /\ last'.returned # None
               /\ ~IsFile(fs', last'.returned) =>
                /\ last'.err = "RuntimeError: Failed to build image"
                /\ built'[i] = built[i]]_vars

\* a build() that set built on an empty artifact
C9_Witness ==
    /\ last.op = "build"
    /\ built[last.img]
    /\ last.returned # None
    /\ IsFile(fs, last.returned)
    /\ Size(fs[last.returned]) = 0
    /\ props[last.img].size = <<0>>

\* ---------------------------------------------------------------- C10
\* C10: when generate_repo has ended and the build of one image failed,
\* every other image of the run was driven through build() (and with it
\* through compression and metadata writing).
C10_SiblingsStillBuilt ==
    run_pc \in {"done", "failed"} =>
        \A i \in Imgs : outcome[i] = "failed" =>
            \A j \in Imgs \ {i} : outcome[j] # "pending"

\* --------------------------------------------- bin/build.py claims: vocabulary
\* the run of generate_repo has made its images
ImagesOfRun == run_pc \notin {"idle", "plan", "resolve"} /\ gb_pc = "returned"

\* the (1-based) index of the batch image i comes from
ImageBatch(i) == BatchOf(ret.value, images[i].spec.id)

\* the names of the batched nodes that carry a spec
PayloadNames(bs) == {n \in Batched(bs) : name_to_instance(nodes)[n].value # None}

\* ---------------------------------------------------------------- C11
\* C11: in generate_repo of bin/build.py, when the build of an image
\* starts, every image of every earlier batch is built; and the images of
\* the run are exactly the batched nodes that carry a spec, one each.
C11_BatchesInSequence ==
    [][/\ \A i \in Imgs :
            run_pc = "build" /\ Called("build", i) =>
                \A j \in Imgs : ImageBatch(j) < ImageBatch(i) => built[j]
       /\ ImagesOfRun' =>
            /\ \A i \in 1..Len(images') :
                   name_to_instance(nodes')[images'[i].spec.id].value # None
            /\ {images'[i].spec.id : i \in 1..Len(images')} = PayloadNames(ret'.value)
            /\ Len(images') = Cardinality(PayloadNames(ret'.value))]_vars

\* the image of a second batch of specs is built after the two images of
\* the batch before it, the anchor node of their base having no image
C11_Witness ==
    /\ ImagesOfRun
    /\ Len(images) = 3
    /\ Len(ret.value) = 3
    /\ last.op = "build" /\ last.img = 3 /\ last.err = ""
    /\ ImageBatch(1) = 2 /\ ImageBatch(2) = 2 /\ ImageBatch(3) = 3
    /\ built[1] /\ built[2] /\ built[3]

\* ------------------------------------------- images.py stages: vocabulary
\* the pre-compression entries of props are those of a content
PreOf(p, c) ==
    /\ p.size = <<Size(c)>>
    /\ p.sha1 = get_hash(c, "sha1")
    /\ p.checksum = get_hash(c, "sha512")

\* the post-compression entries of props are those of a content
PostOf(p, c) ==
    /\ p.compressed_size = <<Size(c)>>
    /\ p.compressed_sha1 = get_hash(c, "sha1")
    /\ p.uncompressed_checksum = get_hash(c, "sha512")
    /\ p.timestamp # Absent

PreChanged(i) ==
    \/ props'[i].size # props[i].size
    \/ props'[i].sha1 # props[i].sha1
    \/ props'[i].checksum # props[i].checksum

PostChanged(i) ==
    \/ props'[i].compressed_size # props[i].compressed_size
    \/ props'[i].compressed_sha1 # props[i].compressed_sha1
    \/ props'[i].uncompressed_checksum # props[i].uncompressed_checksum
    \/ props'[i].timestamp # props[i].timestamp

\* the step created or changed a file with the suffix
Wrote(suffix) ==
    \E path \in DOMAIN fs' :
        /\ EndsWith(path, suffix)
        /\ (path \in DOMAIN fs => fs'[path] # fs[path])

\* where write_lago_metadata puts its files for image i, after the step
BasePathAfter(i) ==
    IF compressed'[i] THEN RSplitDot(built_image_path'[i]) ELSE built_image_path'[i]

\* ---------------------------------------------------------------- C12
\* C12: in one build() call the stages run in the order build action,
\* verification, pre-compression size and digests, compression,
\* post-compression size, digests and timestamp, metadata and hash file,
\* and a stage runs only if the ones before it succeeded: a call that
\* returns has gone through all of them; the pre-compression entries are
\* touched only for a verified artifact and are those of the uncompressed
\* artifact at the returned path; xz runs only after they are recorded;
\* the post-compression entries are touched only on a compressed image;
\* a metadata or hash file is written only after they are recorded.
C12_StageOrder ==
    [][\A i \in Imgs :
          Called("build", i) =>
              LET R == last'.returned
                  p == props'[i]
                  Verified == R # None /\ IsFile(fs', R) /\ built'[i]
                  PreDone == Verified /\ PreOf(p, fs'[R])
                  PostDone == /\ PreDone
                              /\ compressed'[i]
                              /\ IsFile(fs', built_image_path'[i])
                              /\ PostOf(p, fs'[built_image_path'[i]])
              IN  /\ last'.err = "" =>
                        /\ PostDone
                        /\ fs'[BasePathAfter(i) \o Ext("metadata")] = <<"json", p>>
                        /\ fs'[BasePathAfter(i) \o Ext("hash")] = <<p.sha1>>
                  /\ PreChanged(i) => PreDone
                  /\ last'.xz => PreDone
                  /\ PostChanged(i) => PostDone
                  /\ (Wrote(Ext("metadata")) \/ Wrote(Ext("hash"))) => PostDone
                  /\ ~Verified => props'[i] = props[i] /\ ~last'.xz]_vars

\* a first build() that went through every stage
C12_Witness ==
    /\ last.op = "build"
    /\ last.err = ""
    /\ last.xz
    /\ compressed[last.img]
    /\ props[last.img].timestamp # Absent
    /\ props[last.img].sha1 = get_hash(ImgContent, "sha1")
    /\ props[last.img].compressed_sha1 = get_hash(<<"xz">> \o ImgContent, "sha1")

\* ---------------------------------------------------------------- C13
\* the same image with a spec that is not marked metadata-only
Customized(img) == [img EXCEPT !.spec.meta_data_only = FALSE]

\* the step left image i and the disk as the call result r does
SameEnd(i, r) ==
    /\ built'[i] = r.built
    /\ compressed'[i] = r.compressed
    /\ built_image_path'[i] = r.built_image_path
    /\ props'[i] = r.props
    /\ fs' = r.fs
    /\ last'.err = r.err
    /\ last'.xz = r.xz
    /\ last'.returned = r.returned

\* C13: build() of a 'simple:' image whose spec is marked metadata-only
\* runs no customization, clean or compact tool (no tool error ends it and
\* the artifact it returns is the acquired base as it was fetched), and
\* from acquisition on it ends exactly as build() of the same image
\* without the mark ends when its tools leave the artifact as fetched:
\* same verification, entries of props, compression, metadata and hash
\* files, and same error if a stage fails.
C13_MetadataOnlySameStages ==
    [][\A i \in Imgs :
          Called("build", i) /\ images[i].cls = <<"simple">>
              /\ images[i].spec.meta_data_only =>
              /\ last'.err # "RuntimeError: Failed to run virt-customize"
              /\ last'.returned # None =>
                    /\ IsFile(fs', last'.returned)
                    /\ fs'[last'.returned] = fs[images[i].base_image]
              /\ \E out \in {"acquire_fail", "nofile"}, xzok \in BOOLEAN, io \in IoOutcomes :
                    SameEnd(i, build(Customized(images[i]), St(i), out, xzok, io))]_vars

\* a metadata-only image built to the end: its artifact is the base file
C13_Witness ==
    /\ last.op = "build"
    /\ last.err = ""
    /\ images[last.img].cls = <<"simple">>
    /\ images[last.img].spec.meta_data_only
    /\ compressed[last.img]
    /\ fs[last.returned] = fs[BaseFile]
    /\ props[last.img].sha1 = get_hash(fs[BaseFile], "sha1")

\* ---------------------------------------------------------------- C14
\* the spec file lacks a property the Spec class of the repo format requires
Malformed(file) == ~(required_props(spec_cls(repo_format)) \subseteq file.keys)

\* C14: when a spec file of the list handed to generate_repo lacks a
\* property the repo format requires, the run makes no Image and performs
\* no build action, compression or metadata write for any spec, those
\* listed before the malformed one included: the disk stays as it was and
\* the run can only end as failed.
C14_MalformedSpecAbortsRun ==
    (\E k \in 1..Len(specs) : Malformed(specs[k])) =>
        /\ run_pc \in {"create", "failed"}
        /\ images = <<>>
        /\ last.op = ""
        /\ fs = InitialDisk
        /\ \A path \in DOMAIN fs : ~InDir(repo_dir, path)

\* a run that failed on a malformed spec listed after a well formed one
\* of which an Image could have been made
C14_Witness ==
    /\ run_pc = "failed"
    /\ Len(specs) = 2
    /\ ~Malformed(specs[1])
    /\ specs[1].base \in GoodBases
    /\ Malformed(specs[2])
    /\ "name" \in specs[2].keys

\* ---------------------------------------------------------------- C15
\* the names whose node carries no value (anchor nodes)
AnchorNames == {n \in DOMAIN Deps : name_to_instance(nodes)[n].value = None}

\* C15 as stated: no batch of the returned sequence holds a node whose
\* value is absent.
C15_AnchorNeverBatched ==
    ret.returned =>
        \A k \in 1..Len(ret.value) : ret.value[k] \cap AnchorNames = {}

\* C15, amended: a node without value has no dependency, and get_batches
\* schedules it as it schedules any node without dependencies: it is in
\* the first batch of the returned sequence and in no later one.
C15_AnchorInFirstBatch ==
    /\ \A i \in 1..Len(nodes) : nodes[i].value = None => nodes[i].depends = {}
    /\ ret.returned =>
          \A n \in AnchorNames :
              /\ n \in ret.value[1]
              /\ \A k \in 2..Len(ret.value) : n \notin ret.value[k]

\* the anchor of a 'libguestfs:' base in the first batch, next to a spec
\* that depends on nothing, and the spec built on it in the second
C15_Witness ==
    /\ ret.returned
    /\ Len(ret.value) = 2
    /\ AnchorNames # {}
    /\ ret.value[1] \ AnchorNames # {}
    /\ \E n \in ret.value[2] : Deps[n] \subseteq AnchorNames

\* ---------------------------------------------------------------- C16
\* generate_repo got two spec files of which neither is built on the other
\* and which do not name the same base
IndependentPair ==
    /\ run_pc # "idle"
    /\ Len(specs) = 2
    /\ specs[1].id # specs[2].id
    /\ specs[1].base # specs[2].base
    /\ \A k \in 1..2 : specs[k].base \notin {specs[1].id, specs[2].id}

IsLibguestfs(base) == StartsWith(base, <<"libguestfs", ":">>)

\* C16 as stated: the sequence get_batches returns for two independent
\* specs is one batch that holds both.
C16_OneBatch ==
    IndependentPair /\ ret.returned =>
        /\ Len(ret.value) = 1
        /\ ret.value[1] = {specs[1].id, specs[2].id}

\* C16, amended: for two independent specs, each on a 'libguestfs:' base,
\* get_batches does not raise and returns exactly two batches: the first
\* holds the anchor nodes of the two bases, the second holds both specs;
\* the images of the run are those of the two specs.
C16_AnchorsThenOneBatch ==
    IndependentPair /\ IsLibguestfs(specs[1].base) /\ IsLibguestfs(specs[2].base) =>
        /\ gb_pc # "raised"
        /\ ret.returned =>
              ret.value = <<{specs[1].base, specs[2].base}, {specs[1].id, specs[2].id}>>
        /\ ImagesOfRun =>
              /\ Len(images) = 2
              /\ {images[i].spec.id : i \in Imgs} = {specs[1].id, specs[2].id}

\* the two images of an independent pair, both built
C16_Witness ==
    /\ IndependentPair
    /\ ImagesOfRun
    /\ Len(ret.value) = 2
    /\ Len(images) = 2
    /\ built[1] /\ built[2]

\* ---------------------------------------------------------------- C17
\* the spec files x, y, z of the list are a chain: x on a 'libguestfs:'
\* base, y on x, z on y
Chain(x, y, z) ==
    /\ run_pc # "idle"
    /\ Len(specs) = 3
    /\ {x, y, z} = 1..3
    /\ Cardinality({specs[x].id, specs[y].id, specs[z].id}) = 3
    /\ IsLibguestfs(specs[x].base)
    /\ specs[y].base = specs[x].id
    /\ specs[z].base = specs[y].id

\* the step is the call of build() on the k-th image by generate_repo
RunBuilds(k) == run_pc = "build" /\ cur = k /\ Called("build", k)

\* C17 as stated: the three specs of a chain come in three batches of size
\* one in chain order, and the base handed to the leaf's build is the path
\* of mid's artifact.
C17_ThreeBatchesBasePath ==
    [][\A x, y, z \in 1..3 :
          Chain(x, y, z) =>
              /\ ret'.returned =>
                    ret'.value = <<{specs[x].id}, {specs[y].id}, {specs[z].id}>>
              /\ RunBuilds(3) =>
                    base_image_of(images[3].spec) = built_image_path[2]]_vars

\* C17, amended: for a chain the resolver does not raise and yields the
\* anchor node of base's 'libguestfs:' base in a first batch and then the
\* three specs in three batches of size one in chain order; the images
\* are made in that order; and the base handed to leaf's build is mid's
\* id, which is the file name (not the path) of the artifact mid's build
\* left in the repo directory, mid being built and not yet compressed.
C17_ChainOrderBaseName ==
    [][\A x, y, z \in 1..3 :
          Chain(x, y, z) =>
              /\ gb_pc' # "raised"
              /\ ret'.returned =>
                    ret'.value = <<{specs[x].base}, {specs[x].id}, {specs[y].id}, {specs[z].id}>>
              /\ ImagesOfRun' =>
                    <<images'[1].spec.id, images'[2].spec.id, images'[3].spec.id>>
                        = <<specs[x].id, specs[y].id, specs[z].id>>
              /\ RunBuilds(3) =>
                    /\ built[2] /\ ~compressed[2]
                    /\ IsFile(fs, built_image_path[2])
                    /\ base_image_of(images[3].spec) = Basename(built_image_path[2])
                    /\ Join(repo_dir, base_image_of(images[3].spec)) = built_image_path[2]
                    /\ last'.err = "" => fs'[built_image_path[3]] = <<"img", Basename(built_image_path[2])>>]_vars

\* the leaf of a chain, built on mid
C17_Witness ==
    /\ \E x, y, z \in 1..3 : Chain(x, y, z)
    /\ ImagesOfRun
    /\ last.op = "build" /\ last.img = 3 /\ last.err = ""
    /\ built[3]
    /\ fs[built_image_path[3]] = <<"img", images[2].spec.id>>

\* ---------------------------------------------------------------- C18
\* the dependency graph of a node list with unique names: name -> depends
Graph(ns) ==
    [n \in NodeNames(ns) |-> ns[CHOOSE i \in 1..Len(ns) : ns[i].name = n].depends]

\* the layers of a graph: the names without edges, then the names all of
\* whose edges lead into that layer, and so on
RECURSIVE Layers(_)
Layers(g) ==
    LET free == {n \in DOMAIN g : g[n] = {}}
    IN  IF free = {} THEN <<>>
        ELSE <<free>> \o Layers([n \in (DOMAIN g) \ free |-> g[n] \ free])

\* the node list in another order
Permuted(ns, p) == [k \in 1..Len(ns) |-> ns[p[k]]]

\* C18: for a node list with unique names, what get_batches yields is the
\* same for every order the nodes are listed in: the returned sequence is
\* the sequence of layers of the dependency graph (same number of batches,
\* same members at each index), which is the same graph for every order
\* of the list; and the call raises in every order or in none.
C18_Deterministic ==
    UniqueNames =>
        \A p \in Perms(1..Len(nodes)) :
            LET g == Graph(Permuted(nodes, p))
            IN  /\ ret.returned =>
                      /\ Batched(Layers(g)) = DOMAIN g
                      /\ Len(ret.value) = Len(Layers(g))
                      /\ \A k \in 1..Len(ret.value) : ret.value[k] = Layers(g)[k]
                /\ exc.raised => Batched(Layers(g)) # DOMAIN g

\* a returned sequence of two batches or more for three nodes of which one
\* is listed before a node it depends on and one after
C18_Witness ==
    /\ UniqueNames
    /\ ret.returned
    /\ Len(nodes) = 3
    /\ Len(ret.value) >= 2
    /\ \E i, j \in 1..Len(nodes) : i < j /\ nodes[j].name \in nodes[i].depends
    /\ \E i, j \in 1..Len(nodes) : i < j /\ nodes[i].name \in nodes[j].depends

\* ---------------------------------------------------------------- C19
\* C19: get_libguestfs_metadata called on an image that is not compressed
\* fails with its AttributeError, returns nothing and changes nothing; and
\* generate_repo of bin/build.py calls it, in the generation of the
\* virt-builder index, only when every image of the run is compressed.
C19_IndexNeedsCompressed ==
    [][/\ \A i \in Imgs :
            run_pc \in {"idle", "vb_blocks"} /\ Called("get_libguestfs_metadata", i) =>
                /\ ~compressed[i] =>
                      /\ last'.err = "AttributeError: Not built yet"
                      /\ last'.returned = None
                      /\ fs' = fs
                      /\ ~compressed'[i]
                /\ run_pc = "vb_blocks" => \A j \in Imgs : built[j] /\ compressed[j]
       /\ run_pc' \in {"vb_blocks", "vb_index"} =>
              \A j \in 1..Len(images') : compressed'[j]]_vars

\* the index blocks of two images taken by generate_repo, both compressed
C19_Witness ==
    /\ run_pc = "vb_index"
    /\ Len(images) = 2
    /\ last.op = "get_libguestfs_metadata"
    /\ last.img = 2
    /\ last.err = ""
    /\ last.returned = IndexBlock(images[2], St(2))
    /\ compressed[1] /\ compressed[2]

\* ---------------------------------------------------------------- C20
\* C20: when build() returns, the hash file holds the sha1 of the
\* uncompressed artifact (the path the build action returned), and the
\* 'sha1' and 'size' entries of the metadata document are those of the
\* uncompressed artifact too; the post-compression step leaves both
\* entries as the pre-compression step set them; and write_lago_metadata
\* writes props['sha1'] as it finds it.
C20_HashFileIsPreCompressionSha1 ==
    [][\A i \in Imgs :
          /\ Called("build", i) /\ last'.err = "" =>
                LET c == fs'[last'.returned]
                    doc == fs'[BasePathAfter(i) \o Ext("metadata")]
                IN  /\ fs'[BasePathAfter(i) \o Ext("hash")] = <<get_hash(c, "sha1")>>
                    /\ doc[2].sha1 = get_hash(c, "sha1")
                    /\ doc[2].size = <<Size(c)>>
                    /\ last'.xz =>
                          /\ fs'[built_image_path'[i]] # c
                          /\ doc[2].compressed_sha1 = get_hash(fs'[built_image_path'[i]], "sha1")
                          /\ doc[2].compressed_sha1 # doc[2].sha1
          /\ Called("build", i) /\ PostChanged(i) =>
                /\ props'[i].sha1 = get_hash(fs'[last'.returned], "sha1")
                /\ props'[i].size = <<Size(fs'[last'.returned])>>
          /\ Called("write_lago_metadata", i) /\ last'.err = "" =>
                /\ props'[i] = props[i]
                /\ fs'[BasePathAfter(i) \o Ext("hash")] = <<props[i].sha1>>]_vars

\* a build() that compressed the image and wrote the hash file with the
\* sha1 of the uncompressed image
C20_Witness ==
    /\ last.op = "build"
    /\ last.err = ""
    /\ last.xz
    /\ fs[RSplitDot(built_image_path[last.img]) \o Ext("hash")] = <<get_hash(ImgContent, "sha1")>>
    /\ props[last.img].compressed_sha1 = get_hash(<<"xz">> \o ImgContent, "sha1")

\* ---------------------------------------------------------------- C21
\* the metadata documents on the disk that carry the name of image i
MetadataDocsOf(f, i) ==
    {path \in DOMAIN f : EndsWith(path, images[i].spec.name \o Ext("metadata"))}

\* C21: an I/O failure at any point of the metadata/hash write of an image
\* that had no metadata document leaves the image unpublished: the built
\* artifact is still on the disk and no metadata document of the image
\* exists afterwards, so the index generation finds none to list.
C21_IoFailureLeavesUnpublished ==
    [][\A i \in Imgs :
          /\ Called("build", i) \/ Called("write_lago_metadata", i)
          /\ last'.err = "IOError"
          /\ built'[i]
          /\ MetadataDocsOf(fs, i) = {}
          => /\ IsFile(fs', built_image_path'[i])
             /\ MetadataDocsOf(fs', i) = {}
             /\ MetadataFiles(fs', repo_dir) = MetadataFiles(fs, repo_dir)]_vars

\* ---------------------------------------------------------------- C22
\* a step of the strategy of image self fails under the tools' outcome out
StepFails(self, st, out) ==
    \/ out = "acquire_fail"
    \/ self.cls # <<"libguestfs">> /\ ~IsFile(st.fs, self.base_image)
    \/ out = "tool_fail" /\ ~(self.cls = <<"simple">> /\ self.spec.meta_data_only)

\* the exception class that wraps a failure with the image's name and cause
IsBuildException(e) == e = "LagoImagesBuildException: Failed to build"

\* C22: a failure raised by a step of a build strategy (acquisition,
\* layering, customization, clean, compact) leaves build() as a build
\* exception that carries the failing image's name and the causing error;
\* build() never returns normally after a failed step.
C22_StepFailureIsBuildException ==
    [][\A i \in Imgs, out \in ActionOutcomes, xzok \in BOOLEAN, io \in IoOutcomes :
          /\ Called("build", i)
          /\ StepFails(images[i], St(i), out)
          /\ SameEnd(i, build(images[i], St(i), out, xzok, io))
          => IsBuildException(last'.err)]_vars

\* ---------------------------------------------------------------- C23
\* the files a finished build of image j left: the artifact, its compressed
\* form, the metadata document and the hash file
ProducedFor(j) ==
    LET base_path == IF compressed[j] THEN RSplitDot(built_image_path[j])
                     ELSE built_image_path[j]
    IN  {built_image_path[j], base_path,
         base_path \o Ext("metadata"), base_path \o Ext("hash")} \cap DOMAIN fs

\* the step is a build() call of generate_repo's loop
LoopBuilds == run_pc = "build" /\ cur <= Len(images)

\* C23: a failing build of one image of a run leaves its siblings
\* untouched: the artifacts, metadata documents and hash files produced for
\* the images built before it are neither modified nor removed.
C23_FailingBuildLeavesSiblings ==
    [][LoopBuilds /\ last'.err # "" =>
          \A j \in 1..(cur - 1) : \A path \in ProducedFor(j) :
              path \in DOMAIN fs' /\ fs'[path] = fs[path]]_vars

\* ---------------------------------------------------------------- C24
\* C24: for a list of distinct spec files that generate_repo accepts, no
\* two Images of the run have the same destination path.
C24_DistinctDestinationPaths ==
    \A a, b \in Imgs :
        a # b /\ specs[a] # specs[b] => images[a].dst_path # images[b].dst_path

\* ---------------------------------------------------------------- C25
\* the keys _update_meta_data_pre_compress and _update_meta_data_post_compress
\* are to assign
PreCompressKeys == {"size", "sha1", "checksum"}

PostCompressKeys == {"compressed_size", "compressed_sha1", "uncompressed_checksum", "timestamp"}

\* the keys of p outside keys hold what they hold in q
SameOutside(keys, p, q) == \A k \in (DOMAIN p) \ keys : p[k] = q[k]

\* C25: within one build() each of size, sha1, checksum, compressed_size,
\* compressed_sha1, uncompressed_checksum and timestamp is assigned at most
\* once: the pre-compression step assigns only the first three, the
\* post-compression step only the last four, no other step of build()
\* assigns a property, and no other property (the spec file's 'version')
\* is changed.
C25_BackFilledWriteOnce ==
    [][LoopBuilds =>
          \A out \in ActionOutcomes, xzok \in BOOLEAN, io \in IoOutcomes :
              SameEnd(cur, build(images[cur], St(cur), out, xzok, io)) =>
                  LET v == build_verify(images[cur], St(cur), out)
                      pre == IF v.err # "" THEN v ELSE update_meta_data_pre_compress(v)
                      z == IF pre.err # "" THEN pre ELSE compress(images[cur], pre, xzok)
                      post == IF z.err # "" THEN z ELSE update_meta_data_post_compress(z)
                  IN  /\ v.props = props[cur]
                      /\ SameOutside(PreCompressKeys, pre.props, v.props)
                      /\ z.props = pre.props
                      /\ SameOutside(PostCompressKeys, post.props, z.props)
                      /\ props'[cur] = post.props
                      /\ props'[cur].version = props[cur].version]_vars

\* a build of a run that replaced the size the spec file declared, filled
\* all seven keys and left the file's version
C25_Witness ==
    /\ last.op = "build"
    /\ last.err = ""
    /\ "size" \in specs[last.img].keys
    /\ props[last.img].size = <<Size(ImgContent)>>
    /\ props[last.img].version = <<"v1">>
    /\ \A k \in PreCompressKeys \cup PostCompressKeys : props[last.img][k] # Absent

\* ---------------------------------------------------------------- C26
\* the strategy tag and the locator of a base: the text before and after
\* its first colon
TagOf(base) == SubSeq(base, 1, FirstPos(base, ":") - 1)

LocatorOf(base) == SubSeq(base, FirstPos(base, ":") + 1, Len(base))

BadBase(base) ==
    \/ ~HasToken(base, ":")
    \/ TagOf(base) \notin {<<"libguestfs">>, <<"layer">>, <<"simple">>}

\* the path the strategy of a tag builds its artifact at
ArtifactPathOf(image) ==
    IF image.cls = <<"layer">> THEN Join(image.dst_path, image.spec.name)
    ELSE image.dst_path

\* C26: the base of a spec is split at its first colon into a strategy tag
\* and a locator; the tag selects the external generator (libguestfs), the
\* layered (layer) or the in-place (simple) strategy; a base without a
\* colon or with another tag fails the run at image creation, before a
\* build step of any image has run, and a run whose spec files are all well
\* formed with such bases makes an Image for each.
C26_BaseSelectsStrategy ==
    /\ (\E k \in 1..Len(specs) : BadBase(specs[k].base)) =>
          /\ run_pc \in {"create", "failed"}
          /\ images = <<>>
          /\ last.op = ""
          /\ fs = InitialDisk
    /\ \A i \in Imgs :
          /\ images[i].cls = TagOf(specs[i].base)
          /\ images[i].base_image = LocatorOf(specs[i].base)
    /\ (/\ run_pc # "create"
        /\ \A k \in 1..Len(specs) : ~Malformed(specs[k]) /\ ~BadBase(specs[k].base)) =>
          Len(images) = Len(specs)
    /\ last.op = "build" /\ last.returned # None =>
          last.returned = ArtifactPathOf(images[last.img])

\* a run that failed at the creation of its second image, whose tag is none
\* of the three, after a spec with a colon in its locator
C26_Witness ==
    /\ run_pc = "failed"
    /\ images = <<>>
    /\ Len(specs) = 2
    /\ ~Malformed(specs[1]) /\ ~Malformed(specs[2])
    /\ specs[1].base = ColonBase
    /\ specs[2].base = <<"docker", ":", "base">>

\* ---------------------------------------------------------------- C27
\* the step ran the compression of image i and set its compressed flag
Compressed(i) ==
    /\ Called("compress", i) \/ Called("build", i)
    /\ last'.xz
    /\ ~compressed[i]
    /\ compressed'[i]

\* the path of the artifact of image i when the compression was entered
ArtifactBefore(i) ==
    IF last'.op = "build" THEN last'.returned ELSE built_image_path[i]

RepoMetadata == Join(repo_dir, <<"repo", ".", "metadata">>)

\* C28: create_repo_from_metadata is repeatable: called on a directory that
\* holds the repo.metadata an earlier call wrote, it succeeds and writes
\* the same index.
C28_RegenerationRepeatable ==
    [][(run_pc \in {"done", "repo_only_done"}) /\ IsFile(fs, RepoMetadata) =>
          /\ run_pc' = "repo_only_done"
          /\ fs'[RepoMetadata] = fs[RepoMetadata]]_vars

\* ---------------------------------------------------------------- C29
\* get_batches has ended, by return or by raise
Ended == gb_pc \in {"returned", "raised"}

\* C29: get_batches terminates on every finite node list: an iteration of
\* its loop either takes at least one name out of the pending ones or
\* raises, nothing runs after the return or the raise, and so every call
\* ends by returning the batches or by raising the dependency error, for
\* cyclic, self-dependent and unknown-dependency inputs as well.
C29_GetBatchesTerminates ==
    /\ [][/\ gb_pc = "loop"
          /\ \/ Ended'
             \/ /\ gb_pc' = "loop"
                /\ (DOMAIN name_to_deps') \subseteq DOMAIN name_to_deps
                /\ (DOMAIN name_to_deps') # DOMAIN name_to_deps]_vars
    /\ <>Ended

\* a call that raised on a node that depends on itself, after an iteration
\* that made a batch
C29_Witness ==
    /\ gb_pc = "raised"
    /\ Len(batches) = 1
    /\ \E n \in DOMAIN name_to_deps : n \in name_to_deps[n]

\* ---------------------------------------------------------------- C30
\* C30: when get_batches returns, its batches partition the names of the
\* input nodes: every name of the input is in exactly one batch, no batch is
\* empty and no batch holds a name that is not in the input; two input
\* nodes of one name count as one name.
C30_BatchesPartitionNames ==
    ret.returned =>
        /\ Batched(ret.value) = NodeNames(nodes)
        /\ \A k \in 1..Len(ret.value) : ret.value[k] # {}
        /\ \A j, k \in 1..Len(ret.value) : j # k => ret.value[j] \cap ret.value[k] = {}

\* a call that returned two batches for three nodes, two of them of one name
C30_Witness ==
    /\ ret.returned
    /\ Len(nodes) = 3
    /\ nodes[1].name = nodes[2].name
    /\ nodes[1] # nodes[2]
    /\ Len(ret.value) = 2

\* ---------------------------------------------------------------- C31
\* C31: in every state of an Image, under any sequence of build(),
\* compress() and write_lago_metadata() calls, failing ones included,
\* compressed implies built, and built implies that built_image_path is set.
C31_FlagsOrdered ==
    \A i \in Imgs :
        /\ compressed[i] => built[i]
        /\ built[i] => built_image_path[i] # None

\* a build() that ended in an error on an image that is built and compressed
C31_Witness ==
    /\ last.op = "build"
    /\ last.err # ""
    /\ compressed[last.img]
    /\ built[last.img]
    /\ built_image_path[last.img] # None

\* ---------------------------------------------------------------- C32
\* the path without its compression suffix
StripXz(p) == SubSeq(p, 1, Len(p) - Len(Ext("xz")))

\* C32: after any sequence of calls, a build() of an already built and
\* compressed image included, a compressed image has a built_image_path
\* that ends in the compression suffix, and a write of the metadata puts
\* the metadata and hash files at that path with exactly the suffix
\* stripped.
C32_CompressedPathHasSuffix ==
    [][\A i \in Imgs :
          /\ compressed'[i] => EndsWith(built_image_path'[i], Ext("xz"))
          /\ (/\ Called("build", i) \/ Called("write_lago_metadata", i)
              /\ last'.err = ""
              /\ compressed'[i]) =>
                /\ fs'[StripXz(built_image_path'[i]) \o Ext("metadata")] = <<"json", props'[i]>>
                /\ fs'[StripXz(built_image_path'[i]) \o Ext("hash")] = <<props'[i].sha1>>]_vars

\* ---------------------------------------------------------------- C33
\* the URL whose file get_file puts at dst
UrlOf(dst) == CHOOSE url \in Urls : UrlDst(url, repo_dir) = dst

\* C33: download_from_url skips the transfer only when the destination
\* holds a complete earlier download: an acquisition without force that
\* ends well, after a download that broke off part-way included, leaves the
\* whole file of the URL at the destination.
C33_NoPartialAccepted ==
    (/\ last.op \in {"download_from_url", "get_file"}
     /\ last.err = "") =>
        /\ IsFile(fs, last.returned)
        /\ fs[last.returned] = RemoteContent(UrlOf(last.returned))

====
